---- MODULE Spec2Model ----
(***************************************************************************)
(* Shipment tracking-number lifecycle, status engine and lead conversion   *)
(* of parceltrack (backend/src/services/trackingService.ts), over the      *)
(* store described by backend/prisma/schema.prisma.                        *)
(*                                                                         *)
(* Every await of the services is a step of a request process; the store   *)
(* is a transactional, read-committed database: the writes of an           *)
(* interactive transaction become visible at its commit, a row updated in  *)
(* a transaction is locked until the transaction ends, and an insert of a  *)
(* unique key waits for a pending insert of the same key.                  *)
(***************************************************************************)
EXTENDS Integers, Sequences, FiniteSets, TLC

\* ------------------------------------------------------------------ bounds
NumProcs     == 2   \* concurrent requests
NumSeeds     == 2   \* distinct outputs of the random source
MaxShipments == 2   \* shipment rows
MaxEvents    == 2   \* tracking-event rows
MaxLeads     == 1   \* lead rows ever created
MaxTime      == 1   \* clock values 0..MaxTime
MaxListed    == 3   \* shipment rows of the listed stores

Procs == 1..NumProcs
Times == 0..MaxTime

\* --------------------------------------------------------------- constants
\* trackingService.ts:43
MAX_ATTEMPTS == 10
\* trackingService.ts:8
TrackingNumberLength == 12

\* the alphabet had I and O been left in
AlphabetWithIO ==
  << "0","1","2","3","4","5","6","7","8","9",
     "A","B","C","D","E","F","G","H","I","J","K","L","M",
     "N","O","P","Q","R","S","T","U","V","W","X","Y","Z" >>

\* trackingService.ts:7  '0123456789ABCDEFGHJKLMNPQRSTUVWXYZ'
Alphabet ==
  << "0","1","2","3","4","5","6","7","8","9",
     "A","B","C","D","E","F","G","H","J","K","L","M",
     "N","P","Q","R","S","T","U","V","W","X","Y","Z" >>

\* schema.prisma enum TrackingStatus
TrackingStatus ==
  { "PENDING", "PICKED_UP", "IN_TRANSIT", "OUT_FOR_DELIVERY",
    "DELIVERED", "EXCEPTION", "RETURNED" }

\* schema.prisma enum LeadStatus
LeadStatus == { "new", "contacted", "qualified", "converted", "rejected" }

\* absent values (null / undefined)
NoTN   == << >>
NoTime == -1
NoUser == "null"
NoLead == 0
NoText == "null"
NoFilter == "null"
NoNumber == -1

Users == { "u1" }

\* the description, without location, callers send where the runs do not
\* vary them
Scanned == [ description |-> "Status updated", location |-> NoText ]

\* the statuses callers send in the checked runs
StatusInputs == { "IN_TRANSIT", "DELIVERED" }

\* the lead statuses callers send in the checked runs
LeadStatusInputs == { "contacted", "converted" }

\* ------------------------------------------------------ tracking numbers
\* customAlphabet(alphabet, size)(): size characters, each the alphabet
\* character selected by one draw of the random source.
generateTrackingNumber(rnd) ==
  [ i \in 1..TrackingNumberLength |-> Alphabet[(rnd[i] % Len(Alphabet)) + 1] ]

\* the sampled outcomes of the random source: one run of draws per seed
RandomDraws ==
  { [ i \in 1..TrackingNumberLength |-> s * TrackingNumberLength + i - 1 ]
      : s \in 0..(NumSeeds - 1) }

Candidates == { generateTrackingNumber(r) : r \in RandomDraws }

\* ------------------------------------------------------------------ store
VARIABLES
  shipments,  \* committed Shipment rows, in creation order; id = position
  events,     \* committed TrackingEvent rows, in creation order
  leads,      \* Lead rows, in creation order; id = position
  now,        \* the clock read by new Date()
  pc,         \* per request: the await it is suspended at
  req,        \* per request: arguments and locals of the running call
  last,       \* the most recent response returned to a caller
  users,      \* User rows by id
  sessions,   \* per user: the session better-auth holds, as signed in
  cache,      \* the Map of the frontend's SecureCache
  timers,     \* the expiry timers setTimeout has pending
  time,       \* the browser's clock, Date.now()
  latest      \* per key: what the latest set of the key wrote, and until when

vars == << shipments, events, leads, now, pc, req, last,
           users, sessions, cache, timers, time, latest >>

\* the backend's store of shipments and leads
storeVars == << shipments, events, leads, now >>
\* the user administration
adminVars == << users, sessions >>
\* the frontend cache
cacheVars == << cache, timers, time, latest >>

\* a lookup that ignores its where clause
findAny(shs, tn) == DOMAIN shs

\* prisma.shipment.findUnique({ where: { trackingNumber } }): the ids found
findUnique(shs, tn) == { i \in DOMAIN shs : shs[i].trackingNumber = tn }

\* a store without the unique index
AlwaysAccepted(shs, tn) == FALSE

\* @unique on Shipment.trackingNumber: an insert of a number in use fails
UniqueViolation(shs, tn) == findUnique(shs, tn) # {}

\* trackingNumber is a required column without default
MissingRequired(tn) == tn = NoTN

\* a Shipment row as created: status defaults to PENDING, the optional
\* columns to null
NewShipment(tn, userId, lead) ==
  [ trackingNumber |-> tn, status |-> "PENDING", actualDelivery |-> NoTime,
    carrier |-> NoText, carrierTrackingNumber |-> NoText,
    estimatedDelivery |-> NoTime, userId |-> userId, lead |-> lead ]

\* the optional inputs of createShipment besides userId, all left out
NoData ==
  [ carrier |-> NoText, carrierTrackingNumber |-> NoText,
    estimatedDelivery |-> NoTime ]

\* a create that writes the carrier's number into carrier and back
WithDataSwapped(row, data) ==
  [ row EXCEPT !.carrier = data.carrierTrackingNumber,
               !.carrierTrackingNumber = data.carrier,
               !.estimatedDelivery = data.estimatedDelivery ]

\* data: { trackingNumber, carrier: data.carrier, carrierTrackingNumber:
\* data.carrierTrackingNumber, estimatedDelivery: data.estimatedDelivery, ... }
WithData(row, data) ==
  [ row EXCEPT !.carrier = data.carrier,
               !.carrierTrackingNumber = data.carrierTrackingNumber,
               !.estimatedDelivery = data.estimatedDelivery ]

\* an event that does not carry the call's status
NewEventPending(sid, status, ts, text) ==
  [ shipmentId |-> sid, status |-> "PENDING", description |-> text.description,
    location |-> text.location, timestamp |-> ts ]

\* tx.trackingEvent.create({ data: { shipmentId, status, description,
\* location, timestamp } })
NewEvent(sid, status, ts, text) ==
  [ shipmentId |-> sid, status |-> status, description |-> text.description,
    location |-> text.location, timestamp |-> ts ]

\* no description and location: the request slot of no call
NoEventText == [ description |-> NoText, location |-> NoText ]

\* listShipments called with no parameter
NoParams ==
  [ userId |-> NoFilter, status |-> NoFilter, page |-> NoNumber, limit |-> NoNumber ]

\* the accounts of the user administration, by id
Accounts == { "a1", "a2" }
NoAccount == "null"

Roles == { "user", "admin" }

\* a field a request body leaves out
Unset == "unset"

\* the body of an admin request that carries none of name and role
NoBody == [ name |-> Unset, role |-> Unset ]

\* a User row; a deleted row is kept as GoneUser
UserRow(name, role) == [ name |-> name, role |-> role, exists |-> TRUE ]
GoneUser == [ name |-> Unset, role |-> Unset, exists |-> FALSE ]

\* the keys and the data of the cached responses
CacheKeys == { "k1", "k2" }
CacheData == { "d1", "d2" }

\* no set of the key is in force
NotWritten == [ data |-> "null", expires |-> NoTime ]

IdleReq ==
  [ op |-> "none", tn |-> NoTN, status |-> "PENDING", given |-> NoTime,
    ts |-> NoTime, text |-> NoEventText, data |-> NoData, attempts |-> 0,
    lead |-> NoLead, userId |-> NoUser, supplied |-> NoUser, sid |-> 0,
    params |-> NoParams, rows |-> << >>, total |-> 0,
    caller |-> NoAccount, target |-> NoAccount, body |-> NoBody ]

\* what a caller is answered: the operation and how it ended
Response(r, outcome) == [ op |-> r.op, outcome |-> outcome ]

NoResponse == Response(IdleReq, "none")

\* the response of a call of op that ended with outcome
Done(op, outcome) == [ op |-> op, outcome |-> outcome ]

\* one administrator, signed in, and no other account
OneAdmin ==
  /\ users = [ u \in Accounts |-> IF u = "a1" THEN UserRow("n", "admin") ELSE GoneUser ]
  /\ sessions = [ u \in Accounts |-> IF u = "a1" THEN "admin" ELSE Unset ]

\* the cache as constructed: no entry, no timer
EmptyCache ==
  /\ cache = << >>
  /\ timers = {}
  /\ time = 0
  /\ latest = [ k \in CacheKeys |-> NotWritten ]

Init ==
  /\ OneAdmin
  /\ EmptyCache
  /\ shipments = << >>
  /\ events = << >>
  /\ leads = << >>
  /\ now = 0
  /\ pc = [ p \in Procs |-> "idle" ]
  /\ req = [ p \in Procs |-> IdleReq ]
  /\ last = NoResponse

\* a call ends: its response is returned and the request slot is free again
Return(p, outcome) ==
  /\ pc' = [ pc EXCEPT ![p] = "idle" ]
  /\ req' = [ req EXCEPT ![p] = IdleReq ]
  /\ last' = Response(req[p], outcome)

\* rows a running call may still add
PendingShipments ==
  Cardinality({ q \in Procs : pc[q] \in { "alloc", "insert", "conv_create", "conv_update" } })
PendingEvents ==
  Cardinality({ q \in Procs : pc[q] \in { "upd_shipment", "upd_event" } })

\* an uncommitted insert of tn inside a running transaction
PendingInsert(p, tn) ==
  \E q \in Procs \ {p} : pc[q] = "conv_update" /\ req[q].tn = tn

\* a row lock on shipment i held by a running transaction
Locked(p, i) ==
  \E q \in Procs \ {p} : pc[q] = "upd_event" /\ req[q].sid = i

\* ---------------------------------------------------------- createShipment
createShipment_call(p, userId, data) ==
  /\ pc[p] = "idle"
  /\ Len(shipments) + PendingShipments < MaxShipments
  /\ pc' = [ pc EXCEPT ![p] = "alloc" ]
  /\ req' = [ req EXCEPT ![p] = [ IdleReq EXCEPT !.op = "createShipment",
                                                  !.userId = userId,
                                                  !.data = data ] ]
  /\ UNCHANGED << shipments, events, leads, now, last, adminVars, cacheVars >>

\* the guard off by one
ExhaustedAfter(attempts) == attempts > MAX_ATTEMPTS

\* the guard of the retry loop: attempts >= MAX_ATTEMPTS throws
Exhausted(attempts) == attempts >= MAX_ATTEMPTS

\* the locals after one turn: a colliding candidate is dropped and the turn
\* counted; a free one is returned to createShipment and the loop is left
AfterAttempt(r, trackingNumber, exists) ==
  IF exists THEN [ r EXCEPT !.attempts = @ + 1 ]
            ELSE [ r EXCEPT !.tn = trackingNumber, !.attempts = 0 ]

\* one turn of the do-while of generateUniqueTrackingNumber
generateUniqueTrackingNumber_attempt(p) ==
  /\ pc[p] = "alloc"
  /\ IF Exhausted(req[p].attempts)
       THEN /\ Return(p, "AllocationExhausted")
            /\ UNCHANGED << shipments, events, leads, now, adminVars, cacheVars >>
       ELSE \E rnd \in RandomDraws :
              LET trackingNumber == generateTrackingNumber(rnd)
                  exists == findUnique(shipments, trackingNumber) # {}
              IN /\ req' = [ req EXCEPT ![p] = AfterAttempt(@, trackingNumber, exists) ]
                 /\ pc' = [ pc EXCEPT ![p] = IF exists THEN "alloc" ELSE "insert" ]
                 /\ UNCHANGED << shipments, events, leads, now, last, adminVars, cacheVars >>

\* a create that catches the unique violation and allocates again
createShipment_insertRetry(p) ==
  /\ pc[p] = "insert"
  /\ ~ PendingInsert(p, req[p].tn)
  /\ IF UniqueViolation(shipments, req[p].tn)
       THEN /\ pc' = [ pc EXCEPT ![p] = "alloc" ]
            /\ UNCHANGED << shipments, events, leads, now, req, last, adminVars, cacheVars >>
       ELSE /\ shipments' = Append(shipments,
                               WithData(NewShipment(req[p].tn, req[p].userId, NoLead),
                                        req[p].data))
            /\ Return(p, "ok")
            /\ UNCHANGED << events, leads, now, adminVars, cacheVars >>

\* prisma.shipment.create of createShipment
createShipment_insert(p) ==
  /\ pc[p] = "insert"
  /\ ~ PendingInsert(p, req[p].tn)
  /\ IF UniqueViolation(shipments, req[p].tn)
       THEN /\ Return(p, "UniqueViolation")
            /\ UNCHANGED << shipments, events, leads, now, adminVars, cacheVars >>
       ELSE /\ shipments' = Append(shipments,
                               WithData(NewShipment(req[p].tn, req[p].userId, NoLead),
                                        req[p].data))
            /\ Return(p, "ok")
            /\ UNCHANGED << events, leads, now, adminVars, cacheVars >>

\* ---------------------------------------------------- updateShipmentStatus
\* the clock read whatever the caller supplied
ClockOnly(given, clock) == clock

\* const timestamp = data.timestamp || new Date()
EffectiveTimestamp(given, clock) == IF given # NoTime THEN given ELSE clock

updateShipmentStatus_call(p, tn, status, text, timestamp) ==
  /\ pc[p] = "idle"
  /\ Len(events) + PendingEvents < MaxEvents
  /\ pc' = [ pc EXCEPT ![p] = "upd_shipment" ]
  /\ req' = [ req EXCEPT ![p] =
                [ IdleReq EXCEPT !.op = "updateShipmentStatus", !.tn = tn,
                                 !.status = status, !.text = text,
                                 !.given = timestamp,
                                 !.ts = EffectiveTimestamp(timestamp, now) ] ]
  /\ UNCHANGED << shipments, events, leads, now, last, adminVars, cacheVars >>

\* an update that writes actualDelivery with every status
ApplyStatusClearing(shs, i, status, ts) ==
  [ shs EXCEPT ![i].status = status,
               ![i].actualDelivery = IF status = "DELIVERED" THEN ts ELSE NoTime ]

\* tx.shipment.update({ where: { trackingNumber }, data: { status, ... } })
ApplyStatus(shs, i, status, ts) ==
  [ shs EXCEPT ![i].status = status,
               ![i].actualDelivery = IF status = "DELIVERED" THEN ts ELSE @ ]

\* an update that refuses to leave DELIVERED
updateShipmentStatus_updateTerminal(p) ==
  /\ pc[p] = "upd_shipment"
  /\ LET found == findUnique(shipments, req[p].tn)
     IN IF found = {}
          THEN /\ Return(p, "NotFound")
               /\ UNCHANGED << shipments, events, leads, now, adminVars, cacheVars >>
          ELSE \E i \in found :
                 /\ ~ Locked(p, i)
                 /\ IF shipments[i].status = "DELIVERED"
                      THEN /\ Return(p, "InvalidTransition")
                           /\ UNCHANGED << shipments, events, leads, now, adminVars, cacheVars >>
                      ELSE /\ pc' = [ pc EXCEPT ![p] = "upd_event" ]
                           /\ req' = [ req EXCEPT ![p].sid = i ]
                           /\ UNCHANGED << shipments, events, leads, now, last, adminVars, cacheVars >>

\* the first write of the transaction: fails when no row has the number,
\* otherwise locks the row and keeps the write pending until commit
updateShipmentStatus_update(p) ==
  /\ pc[p] = "upd_shipment"
  /\ LET found == findUnique(shipments, req[p].tn)
     IN IF found = {}
          THEN /\ Return(p, "NotFound")
               /\ UNCHANGED << shipments, events, leads, now, adminVars, cacheVars >>
          ELSE \E i \in found :
                 /\ ~ Locked(p, i)
                 /\ pc' = [ pc EXCEPT ![p] = "upd_event" ]
                 /\ req' = [ req EXCEPT ![p].sid = i ]
                 /\ UNCHANGED << shipments, events, leads, now, last, adminVars, cacheVars >>

\* the update written outside a transaction
NotRolledBack(shs, i, status, ts) == ApplyStatus(shs, i, status, ts)

\* the committed shipments after the transaction of updateShipmentStatus
\* failed behind its shipment update: $transaction rolls the update back
RolledBack(shs, i, status, ts) == shs

\* a commit that keeps one event per shipment: the shipment's event, if it
\* has one, is overwritten
updateShipmentStatus_eventUpsert(p) ==
  /\ pc[p] = "upd_event"
  /\ \/ /\ shipments' = ApplyStatus(shipments, req[p].sid, req[p].status, req[p].ts)
        /\ events' =
             LET e == NewEvent(req[p].sid, req[p].status, req[p].ts, req[p].text)
                 old == { k \in DOMAIN events : events[k].shipmentId = req[p].sid }
             IN IF old = {} THEN Append(events, e)
                ELSE [ k \in DOMAIN events |-> IF k \in old THEN e ELSE events[k] ]
        /\ Return(p, "ok")
        /\ UNCHANGED << leads, now, adminVars, cacheVars >>
     \/ /\ shipments' = RolledBack(shipments, req[p].sid, req[p].status, req[p].ts)
        /\ Return(p, "EventInsertFailed")
        /\ UNCHANGED << events, leads, now, adminVars, cacheVars >>

\* tx.trackingEvent.create and the end of the transaction: commit of both
\* writes, or a failure of the insert and rollback
updateShipmentStatus_event(p) ==
  /\ pc[p] = "upd_event"
  /\ \/ /\ shipments' = ApplyStatus(shipments, req[p].sid, req[p].status, req[p].ts)
        /\ events' = Append(events, NewEvent(req[p].sid, req[p].status, req[p].ts, req[p].text))
        /\ Return(p, "ok")
        /\ UNCHANGED << leads, now, adminVars, cacheVars >>
     \/ /\ shipments' = RolledBack(shipments, req[p].sid, req[p].status, req[p].ts)
        /\ Return(p, "EventInsertFailed")
        /\ UNCHANGED << events, leads, now, adminVars, cacheVars >>

\* ------------------------------------------------------------- getShipment
EventsOf(evs, i) == { k \in DOMAIN evs : evs[k].shipmentId = i }

\* orderBy timestamp ascending
FirstByTimestampAsc(evs, i) ==
  { k \in EventsOf(evs, i) :
      \A m \in EventsOf(evs, i) : evs[m].timestamp >= evs[k].timestamp }

\* include: { events: { orderBy: { timestamp: 'desc' } } }: the events that
\* the ordering may put first (the store orders equal timestamps freely)
FirstByTimestamp(evs, i) ==
  { k \in EventsOf(evs, i) :
      \A m \in EventsOf(evs, i) : evs[m].timestamp <= evs[k].timestamp }

\* getShipment(trackingNumber): the possible results, as
\* [found, status, first] with first the status of events[0]
getShipment(shs, evs, tn) ==
  IF findUnique(shs, tn) = {}
    THEN { [ found |-> FALSE, status |-> "PENDING", first |-> "none" ] }
    ELSE LET i == CHOOSE j \in findUnique(shs, tn) : TRUE
         IN IF EventsOf(evs, i) = {}
              THEN { [ found |-> TRUE, status |-> shs[i].status, first |-> "none" ] }
              ELSE { [ found |-> TRUE, status |-> shs[i].status,
                       first |-> evs[k].status ] : k \in FirstByTimestamp(evs, i) }

\* the arrangements of the ids S in a list
Orderings(S) ==
  { o \in [ 1..Cardinality(S) -> S ] :
      \A a, b \in 1..Cardinality(S) : a # b => o[a] # o[b] }

\* the events in the order they were created
OrderByCreation(evs, S) ==
  { o \in Orderings(S) : \A a, b \in 1..Cardinality(S) : a < b => o[a] < o[b] }

\* orderBy: { timestamp: 'desc' }: the lists the store may return, equal
\* timestamps in any order
OrderByTimestampDesc(evs, S) ==
  { o \in Orderings(S) :
      \A a, b \in 1..Cardinality(S) :
        a < b => evs[o[a]].timestamp >= evs[o[b]].timestamp }

\* getShipment(trackingNumber) with its events array: the possible results,
\* as [found, shipment, events] with events the list of event ids; null is
\* found = FALSE
getShipment_events(shs, evs, tn) ==
  IF findUnique(shs, tn) = {}
    THEN { [ found |-> FALSE, shipment |-> 0, events |-> << >> ] }
    ELSE LET i == CHOOSE j \in findUnique(shs, tn) : TRUE
         IN { [ found |-> TRUE, shipment |-> i, events |-> o ] :
                o \in OrderByTimestampDesc(evs, EventsOf(evs, i)) }

\* ------------------------------------------------------------ LeadService
\* a Lead row as created: status defaults to new
NewLead(clientId) == [ status |-> "new", clientId |-> clientId, deleted |-> FALSE ]

\* the slot of a deleted row: ids are never reused
DeletedLead == [ status |-> "new", clientId |-> NoUser, deleted |-> TRUE ]

\* prisma.lead.findUnique({ where: { id } }) finds a row
LeadExists(lds, l) == l \in DOMAIN lds /\ ~ lds[l].deleted

createLead(clientId) ==
  /\ Len(leads) < MaxLeads
  /\ leads' = Append(leads, NewLead(clientId))
  /\ UNCHANGED << shipments, events, now, pc, req, last, adminVars, cacheVars >>

\* prisma.lead.update({ where: { id }, data: { status, ... } })
updateLeadStatus(l, status) ==
  /\ LeadExists(leads, l)
  /\ leads' = [ leads EXCEPT ![l].status = status ]
  /\ UNCHANGED << shipments, events, now, pc, req, last, adminVars, cacheVars >>

\* prisma.lead.update({ where: { id }, data: { ...rest, ... } }): rest
\* carries status and clientId when the caller's LeadUpdateInput has them
updateLead(l, status, clientId) ==
  /\ LeadExists(leads, l)
  /\ leads' = [ leads EXCEPT ![l].status = IF status = "unset" THEN @ ELSE status,
                             ![l].clientId = IF clientId = "unset" THEN @ ELSE clientId ]
  /\ UNCHANGED << shipments, events, now, pc, req, last, adminVars, cacheVars >>

deleteLead(l) ==
  /\ LeadExists(leads, l)
  /\ leads' = [ leads EXCEPT ![l] = DeletedLead ]
  /\ UNCHANGED << shipments, events, now, pc, req, last, adminVars, cacheVars >>

\* ------------------------------------------------------- convertToShipment
\* a check that lets every lead through
NeverConverted(lds, l) == FALSE

\* if (lead.status === LeadStatus.converted) throw
AlreadyConverted(lds, l) == lds[l].status = "converted"

\* findUnique of the lead and the two checks, before the transaction starts;
\* trackingNumber and userId are what the caller's shipmentData carries
convertToShipment_check(p, l, trackingNumber, userId) ==
  /\ pc[p] = "idle"
  /\ Len(shipments) + PendingShipments < MaxShipments
  /\ LET call == [ IdleReq EXCEPT !.op = "convertToShipment", !.lead = l,
                                   !.tn = trackingNumber, !.supplied = userId ]
     IN IF ~ LeadExists(leads, l)
          THEN /\ pc' = pc
               /\ req' = req
               /\ last' = Response(call, "LeadNotFound")
          ELSE IF AlreadyConverted(leads, l)
            THEN /\ pc' = pc
                 /\ req' = req
                 /\ last' = Response(call, "AlreadyConverted")
            ELSE /\ pc' = [ pc EXCEPT ![p] = "conv_create" ]
                 /\ req' = [ req EXCEPT ![p] =
                               [ call EXCEPT !.userId = leads[l].clientId ] ]
                 /\ last' = last
  /\ UNCHANGED << shipments, events, leads, now, adminVars, cacheVars >>

\* tx.shipment.create({ data: { ...shipmentData, userId } }): the row has
\* the tracking number shipmentData carries, if any; no allocator is called
convertToShipment_create(p) ==
  /\ pc[p] = "conv_create"
  /\ ~ PendingInsert(p, req[p].tn)
  /\ IF MissingRequired(req[p].tn)
       THEN /\ Return(p, "ValidationError")
            /\ UNCHANGED << shipments, events, leads, now, adminVars, cacheVars >>
       ELSE IF UniqueViolation(shipments, req[p].tn)
         THEN /\ Return(p, "UniqueViolation")
              /\ UNCHANGED << shipments, events, leads, now, adminVars, cacheVars >>
         ELSE /\ pc' = [ pc EXCEPT ![p] = "conv_update" ]
              /\ UNCHANGED << shipments, events, leads, now, req, last, adminVars, cacheVars >>

\* { userId: lead.clientId, ...shipmentData }: the caller's userId wins
CallerOwner(supplied, clientId) == IF supplied # NoUser THEN supplied ELSE clientId

\* { ...shipmentData, userId: lead.clientId?.toString() }: the key written
\* last wins, also when the lead has no client
LeadOwner(supplied, clientId) == clientId

\* the insert written outside a transaction
ConvNotRolledBack(shs, row) == Append(shs, row)

\* the committed shipments after the transaction of convertToShipment failed
\* behind its shipment insert: $transaction rolls the insert back
ConvRolledBack(shs, row) == shs

\* a conversion that records an initial event for its shipment
convertToShipment_updateWithEvent(p) ==
  /\ pc[p] = "conv_update"
  /\ LET row == NewShipment(req[p].tn, LeadOwner(req[p].supplied, req[p].userId),
                            req[p].lead)
     IN IF ~ LeadExists(leads, req[p].lead)
          THEN /\ shipments' = ConvRolledBack(shipments, row)
               /\ Return(p, "NotFound")
               /\ UNCHANGED << events, leads, now, adminVars, cacheVars >>
          ELSE /\ shipments' = Append(shipments, row)
               /\ events' = Append(events, NewEvent(Len(shipments) + 1, "PENDING", now, NoEventText))
               /\ leads' = [ leads EXCEPT ![req[p].lead].status = "converted" ]
               /\ Return(p, "ok")
               /\ UNCHANGED << now, adminVars, cacheVars >>

\* tx.lead.update and the end of the transaction: the update fails when the
\* lead row is gone, and the transaction is rolled back; otherwise both
\* writes are committed
convertToShipment_update(p) ==
  /\ pc[p] = "conv_update"
  /\ LET row == NewShipment(req[p].tn, LeadOwner(req[p].supplied, req[p].userId),
                            req[p].lead)
     IN IF ~ LeadExists(leads, req[p].lead)
          THEN /\ shipments' = ConvRolledBack(shipments, row)
               /\ Return(p, "NotFound")
               /\ UNCHANGED << events, leads, now, adminVars, cacheVars >>
          ELSE /\ shipments' = Append(shipments, row)
               /\ leads' = [ leads EXCEPT ![req[p].lead].status = "converted" ]
               /\ Return(p, "ok")
               /\ UNCHANGED << events, now, adminVars, cacheVars >>

\* ----------------------------------------------------------- listShipments
\* const { userId, status, page = 1, limit = 20 } = params
DefaultPage == 1
DefaultLimit == 20
EffectivePage(page) == IF page = NoNumber THEN DefaultPage ELSE page
EffectiveLimit(limit) == IF limit = NoNumber THEN DefaultLimit ELSE limit

\* where: { ...(userId && { userId }), ...(status && { status }) }
Matches(row, params) ==
  /\ params.userId = NoFilter \/ row.userId = params.userId
  /\ params.status = NoFilter \/ row.status = params.status

\* orderBy: { createdAt: 'desc' } over the rows that match: their ids
MatchingNewestFirst(shs, params) ==
  SelectSeq([ k \in 1..Len(shs) |-> Len(shs) + 1 - k ],
            LAMBDA i : Matches(shs[i], params))

\* a skip that counts the requested page in
SkipThrough(page, limit) == page * limit

\* skip: (page - 1) * limit
Skip(page, limit) == (page - 1) * limit

\* findMany({ where, orderBy, skip, take: limit }): the ids of the page
findMany(shs, params) ==
  LET m == MatchingNewestFirst(shs, params)
      skip == Skip(EffectivePage(params.page), EffectiveLimit(params.limit))
      take == EffectiveLimit(params.limit)
  IN [ k \in 1..(IF Len(m) - skip < 0 THEN 0
                 ELSE IF Len(m) - skip < take THEN Len(m) - skip ELSE take)
         |-> m[skip + k] ]

\* prisma.shipment.count({ where })
count(shs, params) == Len(MatchingNewestFirst(shs, params))

\* Math.ceil(total / limit)
CeilDiv(total, limit) ==
  IF total % limit = 0 THEN total \div limit ELSE (total \div limit) + 1

\* the returned object: the rows and pagination
ListResult(r) ==
  [ shipments |-> r.rows,
    total |-> r.total,
    page |-> EffectivePage(r.params.page),
    limit |-> EffectiveLimit(r.params.limit),
    totalPages |-> CeilDiv(r.total, EffectiveLimit(r.params.limit)) ]

listShipments_call(p, params) ==
  /\ pc[p] = "idle"
  /\ pc' = [ pc EXCEPT ![p] = "list" ]
  /\ req' = [ req EXCEPT ![p] = [ IdleReq EXCEPT !.op = "listShipments",
                                                  !.params = params ] ]
  /\ UNCHANGED << shipments, events, leads, now, last, adminVars, cacheVars >>

\* Promise.all([findMany, count]): the two queries run in either order, each
\* on the rows committed when it runs
listShipments_findMany(p) ==
  /\ pc[p] \in { "list", "list_total" }
  /\ pc' = [ pc EXCEPT ![p] = IF pc[p] = "list" THEN "list_rows" ELSE "list_both" ]
  /\ req' = [ req EXCEPT ![p].rows = findMany(shipments, req[p].params) ]
  /\ UNCHANGED << shipments, events, leads, now, last, adminVars, cacheVars >>

listShipments_count(p) ==
  /\ pc[p] \in { "list", "list_rows" }
  /\ pc' = [ pc EXCEPT ![p] = IF pc[p] = "list" THEN "list_total" ELSE "list_both" ]
  /\ req' = [ req EXCEPT ![p].total = count(shipments, req[p].params) ]
  /\ UNCHANGED << shipments, events, leads, now, last, adminVars, cacheVars >>

listShipments_return(p) ==
  /\ pc[p] = "list_both"
  /\ Return(p, "ok")
  /\ UNCHANGED << shipments, events, leads, now, adminVars, cacheVars >>

\* ------------------------------------------------------------------ routes
\* error.message of what a service call throws: the services' own messages,
\* and the store client's message for an error the store raises
ErrorMessage(outcome) ==
  CASE outcome = "AllocationExhausted"
         -> "Failed to generate unique tracking number after multiple attempts"
    [] outcome = "LeadNotFound" -> "Lead not found"
    [] outcome = "AlreadyConverted" -> "Lead already converted"
    [] OTHER -> "PrismaClientError"

\* res.json(x): status 200
Json == [ status |-> 200, error |-> "none" ]

\* POST /shipments
createShipmentRoute(outcome) ==
  IF outcome = "ok" THEN Json
  ELSE [ status |-> 500, error |-> "Failed to create shipment" ]

\* GET /shipments/:trackingNumber
getShipmentRoute(found) ==
  IF found THEN Json
  ELSE [ status |-> 404, error |-> "Shipment not found" ]

\* POST /shipments/:trackingNumber/status
updateStatusRoute(outcome) ==
  IF outcome = "ok" THEN Json
  ELSE [ status |-> 500, error |-> "Failed to update shipment status" ]

\* POST /:id/convert
convertRoute(outcome) ==
  IF outcome = "ok" THEN Json
  ELSE [ status |-> 500, error |-> ErrorMessage(outcome) ]

\* the HTTP answer to the request whose service call ended as resp
HttpAnswer(resp) ==
  CASE resp.op = "createShipment" -> createShipmentRoute(resp.outcome)
    [] resp.op = "updateShipmentStatus" -> updateStatusRoute(resp.outcome)
    [] resp.op = "convertToShipment" -> convertRoute(resp.outcome)
    [] OTHER -> Json

Tick ==
  /\ now < MaxTime
  /\ now' = now + 1
  /\ UNCHANGED << shipments, events, leads, pc, req, last, adminVars, cacheVars >>

\* the store after createShipment has run once, with the first number of the
\* random source
OneShipment ==
  << NewShipment(generateTrackingNumber([ i \in 1..TrackingNumberLength |-> i - 1 ]),
                 NoUser, NoLead) >>

LeadNext ==
  \/ \E u \in Users \cup { NoUser } : createLead(u)
  \/ \E l \in 1..MaxLeads, st \in LeadStatusInputs : updateLeadStatus(l, st)
  \/ \E l \in 1..MaxLeads, st \in LeadStatusInputs \cup { "unset" } : updateLead(l, st, "unset")
  \/ \E l \in 1..MaxLeads : deleteLead(l)
  \/ \E p \in Procs, l \in 1..MaxLeads, tn \in Candidates \cup { NoTN } :
        convertToShipment_check(p, l, tn, NoUser)
  \/ \E p \in Procs : convertToShipment_create(p)
  \/ \E p \in Procs : convertToShipment_update(p)

\* the three operations that write shipments, interleaved, with the leads
\* the conversions need; callers leave the optional inputs out
Next ==
  \/ \E p \in Procs : createShipment_call(p, NoUser, NoData)
  \/ \E p \in Procs : generateUniqueTrackingNumber_attempt(p)
  \/ \E p \in Procs : createShipment_insert(p)
  \/ \E p \in Procs :
        updateShipmentStatus_call(p, OneShipment[1].trackingNumber, "DELIVERED",
                                  Scanned, NoTime)
  \/ \E p \in Procs : updateShipmentStatus_update(p)
  \/ \E p \in Procs : updateShipmentStatus_event(p)
  \/ createLead(NoUser)
  \/ \E p \in Procs, l \in 1..MaxLeads, tn \in Candidates \cup { NoTN } :
        convertToShipment_check(p, l, tn, NoUser)
  \/ \E p \in Procs : convertToShipment_create(p)
  \/ \E p \in Procs : convertToShipment_update(p)

Spec == Init /\ [][Next]_vars

\* the allocator and createShipment alone
AllocNext ==
  \/ \E p \in Procs, u \in Users \cup { NoUser } : createShipment_call(p, u, NoData)
  \/ \E p \in Procs : generateUniqueTrackingNumber_attempt(p)
  \/ \E p \in Procs : createShipment_insert(p)

AllocSpec == Init /\ [][AllocNext]_vars

\* the inputs of createShipment: each optional field supplied or left out
CreateInputs ==
  [ carrier : { NoText, "DHL" }, carrierTrackingNumber : { NoText, "JD014600" },
    estimatedDelivery : { NoTime, 0 } ]

\* createShipment with every combination of its optional inputs, one call
\* at a time
CreateNext ==
  \/ \E u \in Users \cup { NoUser }, d \in CreateInputs : createShipment_call(1, u, d)
  \/ generateUniqueTrackingNumber_attempt(1)
  \/ createShipment_insert(1)

CreateSpec == Init /\ [][CreateNext]_vars

\* updateShipmentStatus alone, on a store that holds one created shipment
UpdateInit ==
  /\ OneAdmin
  /\ EmptyCache
  /\ shipments = OneShipment
  /\ events = << >>
  /\ leads = << >>
  /\ now = 0
  /\ pc = [ p \in Procs |-> "idle" ]
  /\ req = [ p \in Procs |-> IdleReq ]
  /\ last = Done("createShipment", "ok")

UpdateNext ==
  \/ \E p \in Procs, tn \in Candidates, st \in StatusInputs,
        ts \in Times \cup { NoTime } : updateShipmentStatus_call(p, tn, st, Scanned, ts)
  \/ \E p \in Procs : updateShipmentStatus_update(p)
  \/ \E p \in Procs : updateShipmentStatus_event(p)
  \/ Tick

UpdateSpec == UpdateInit /\ [][UpdateNext]_vars

\* concurrent updateShipmentStatus calls: every call starts before any call
\* has returned
ConcurrentNext ==
  \/ /\ last = Done("createShipment", "ok")
     /\ \E p \in Procs, tn \in Candidates, st \in StatusInputs,
           ts \in Times \cup { NoTime } : updateShipmentStatus_call(p, tn, st, Scanned, ts)
  \/ \E p \in Procs : updateShipmentStatus_update(p)
  \/ \E p \in Procs : updateShipmentStatus_event(p)

ConcurrentSpec == UpdateInit /\ [][ConcurrentNext]_vars

\* the descriptions and locations of the event log runs
EventTexts ==
  [ description : { "Picked up", "Left facility" }, location : { NoText, "Hub" } ]

\* updateShipmentStatus with every description and location, stamped by the
\* clock
EventLogNext ==
  \/ \E p \in Procs, tn \in Candidates, st \in StatusInputs, text \in EventTexts :
        updateShipmentStatus_call(p, tn, st, text, NoTime)
  \/ \E p \in Procs : updateShipmentStatus_update(p)
  \/ \E p \in Procs : updateShipmentStatus_event(p)

EventLogSpec == UpdateInit /\ [][EventLogNext]_vars

\* updateShipmentStatus of the stored shipment to every status of the enum
FreeGraphNext ==
  \/ \E p \in Procs, st \in TrackingStatus :
        updateShipmentStatus_call(p, OneShipment[1].trackingNumber, st, Scanned, NoTime)
  \/ \E p \in Procs : updateShipmentStatus_update(p)
  \/ \E p \in Procs : updateShipmentStatus_event(p)

FreeGraphSpec == UpdateInit /\ [][FreeGraphNext]_vars

\* a number the random source of the runs does not produce
UnmintedNumber ==
  generateTrackingNumber([ i \in 1..TrackingNumberLength |->
                             NumSeeds * TrackingNumberLength + i - 1 ])

\* the store after createShipment has run twice, with the first two numbers
\* of the random source
TwoShipments ==
  << OneShipment[1],
     NewShipment(generateTrackingNumber([ i \in 1..TrackingNumberLength |->
                                            TrackingNumberLength + i - 1 ]),
                 NoUser, NoLead) >>

LookupInit ==
  /\ OneAdmin
  /\ EmptyCache
  /\ shipments = TwoShipments
  /\ events = << >>
  /\ leads = << >>
  /\ now = 0
  /\ pc = [ p \in Procs |-> "idle" ]
  /\ req = [ p \in Procs |-> IdleReq ]
  /\ last = Done("createShipment", "ok")

\* updates of two stored shipments with caller-supplied timestamps, for the
\* lookups of getShipment
LookupNext ==
  \/ \E p \in Procs, i \in DOMAIN TwoShipments, st \in StatusInputs, ts \in Times :
        updateShipmentStatus_call(p, TwoShipments[i].trackingNumber, st, Scanned, ts)
  \/ \E p \in Procs : updateShipmentStatus_update(p)
  \/ \E p \in Procs : updateShipmentStatus_event(p)

LookupSpec == LookupInit /\ [][LookupNext]_vars

\* the lead side: every LeadService operation, with createShipment
ConvNext ==
  \/ LeadNext
  \/ \E p \in Procs : createShipment_call(p, NoUser, NoData)
  \/ \E p \in Procs : generateUniqueTrackingNumber_attempt(p)
  \/ \E p \in Procs : createShipment_insert(p)

ConvSpec == Init /\ [][ConvNext]_vars

\* conversions alone: leads are created and deleted, and converted by
\* concurrent calls; no other operation writes a lead's status
RaceNext ==
  \/ \E u \in Users \cup { NoUser } : createLead(u)
  \/ \E l \in 1..MaxLeads : deleteLead(l)
  \/ \E p \in Procs, l \in 1..MaxLeads, tn \in Candidates \cup { NoTN } :
        convertToShipment_check(p, l, tn, NoUser)
  \/ \E p \in Procs : convertToShipment_create(p)
  \/ \E p \in Procs : convertToShipment_update(p)

RaceSpec == Init /\ [][RaceNext]_vars

\* users that are no lead's first client
OtherUsers == { "u2" }

\* the userId the callers of the owner runs put into shipmentData
CallerUser == "u3"

\* conversions whose callers put a userId into shipmentData, with updates
\* of the leads' clients
OwnerNext ==
  \/ \E u \in Users \cup { NoUser } : createLead(u)
  \/ \E l \in 1..MaxLeads, u \in OtherUsers : updateLead(l, "unset", u)
  \/ \E p \in Procs, l \in 1..MaxLeads, tn \in Candidates :
        convertToShipment_check(p, l, tn, CallerUser)
  \/ \E p \in Procs : convertToShipment_create(p)
  \/ \E p \in Procs : convertToShipment_update(p)

OwnerSpec == Init /\ [][OwnerNext]_vars

\* one caller, one call at a time: an operation starts when none is running
AllIdle == \A q \in Procs : pc[q] = "idle"

SeqNext ==
  \/ AllIdle /\ \E u \in Users \cup { NoUser } : createLead(u)
  \/ AllIdle /\ \E l \in 1..MaxLeads, st \in LeadStatusInputs : updateLeadStatus(l, st)
  \/ AllIdle /\ \E l \in 1..MaxLeads, st \in LeadStatusInputs \cup { "unset" } :
                  updateLead(l, st, "unset")
  \/ AllIdle /\ \E l \in 1..MaxLeads : deleteLead(l)
  \/ AllIdle /\ \E l \in 1..MaxLeads, tn \in Candidates \cup { NoTN } :
                  convertToShipment_check(1, l, tn, NoUser)
  \/ convertToShipment_create(1)
  \/ convertToShipment_update(1)
  \/ AllIdle /\ createShipment_call(1, NoUser, NoData)
  \/ generateUniqueTrackingNumber_attempt(1)
  \/ createShipment_insert(1)

SeqSpec == Init /\ [][SeqNext]_vars

\* a store of Len(statuses) shipments that createShipment stored for the
\* owners and updateShipmentStatus moved to the statuses
StoreOf(statuses, owners) ==
  [ i \in 1..Len(statuses) |->
      [ NewShipment(generateTrackingNumber([ k \in 1..TrackingNumberLength |->
                                               (i - 1) * TrackingNumberLength + k - 1 ]),
                    owners[i], NoLead)
          EXCEPT !.status = statuses[i] ] ]

\* the event log of that store: one event per shipment that left PENDING
EventsOfStore(statuses) ==
  LET moved == SelectSeq([ i \in 1..Len(statuses) |-> i ],
                         LAMBDA i : statuses[i] # "PENDING")
  IN [ k \in 1..Len(moved) |-> NewEvent(moved[k], statuses[moved[k]], 0, Scanned) ]

\* the stores listed: every store of up to MaxListed shipments, and stores
\* of 12 and of 21 shipments in transit that nobody owns
ListStatuses ==
  UNION { [ 1..n -> { "PENDING", "IN_TRANSIT" } ] : n \in 0..MaxListed }
    \cup { [ i \in 1..12 |-> "IN_TRANSIT" ], [ i \in 1..21 |-> "IN_TRANSIT" ] }

ListInit ==
  /\ OneAdmin
  /\ EmptyCache
  /\ \E st \in ListStatuses :
       /\ \E us \in [ 1..Len(st) -> IF Len(st) <= MaxListed THEN Users \cup { NoUser }
                                    ELSE { NoUser } ] :
            shipments = StoreOf(st, us)
       /\ events = EventsOfStore(st)
  /\ leads = << >>
  /\ now = 0
  /\ pc = [ p \in Procs |-> "idle" ]
  /\ req = [ p \in Procs |-> IdleReq ]
  /\ last = NoResponse

\* the parameters of the listed runs
ListParams ==
  [ userId : { NoFilter } \cup Users, status : { NoFilter, "IN_TRANSIT" },
    page : { NoNumber, 1, 2, 3 }, limit : { NoNumber, 1, 2, 5 } ]

\* listShipments on a store at rest, one call at a time
ListNext ==
  \/ \E params \in ListParams : listShipments_call(1, params)
  \/ listShipments_findMany(1)
  \/ listShipments_count(1)
  \/ listShipments_return(1)

ListSpec == ListInit /\ [][ListNext]_vars

\* ================================================================= claims
\* ---- the admin user routes (routes/admin.js) ----

\* the routes of the user administration that write a User row
PutUser == "PUT /users/:id"
PutRole == "PUT /users/:userId/role"
DeleteUser == "DELETE /users/:id"
AdminRoutes == { PutUser, PutRole, DeleteUser }

\* no session: auth.api.getSession returned null
NoSession == "none"

\* the role the session object itself carries: the one of the sign-in
SessionRoleOnly(sess, usrs, u) ==
  IF sess[u] = Unset THEN NoSession ELSE sess[u]

\* getSessionWithRole: the session of the request's cookie with the role read
\* from the User row now, 'user' when the row has none
getSessionWithRole(sess, usrs, u) ==
  IF sess[u] = Unset THEN NoSession
  ELSE IF usrs[u].exists THEN usrs[u].role ELSE "user"

\* a request of account caller arrives at an admin route and passes the
\* requireAdmin middleware: 403 unless the session's fresh role is admin
requireAdmin(p, route, caller, target, body) ==
  /\ pc[p] = "idle"
  /\ LET call == [ IdleReq EXCEPT !.op = route, !.caller = caller,
                                   !.target = target, !.body = body ]
     IN IF getSessionWithRole(sessions, users, caller) # "admin"
          THEN /\ pc' = pc
               /\ req' = req
               /\ last' = Response(call, "403")
          ELSE /\ pc' = [ pc EXCEPT ![p] = "adm_find" ]
               /\ req' = [ req EXCEPT ![p] = call ]
               /\ last' = last
  /\ UNCHANGED << storeVars, adminVars, cacheVars >>

\* the handlers' tests of the target id against req.user.id
SelfProtection(route, caller, target, body, existing) ==
  /\ target = caller
  /\ route = PutUser => body.role # Unset /\ body.role # existing.role

\* the handler reads the target row: 404 when there is none, 400 when the
\* request is one the caller may not make on their own account
admin_findUnique(p) ==
  /\ pc[p] = "adm_find"
  /\ LET r == req[p]
     IN IF ~ users[r.target].exists
          THEN Return(p, "404")
          ELSE IF SelfProtection(r.op, r.caller, r.target, r.body, users[r.target])
            THEN Return(p, "400")
            ELSE /\ pc' = [ pc EXCEPT ![p] = "adm_write" ]
                 /\ UNCHANGED << req, last >>
  /\ UNCHANGED << storeVars, adminVars, cacheVars >>

\* the row prisma.user.update writes: the fields the body carries
UpdatedUser(row, body) ==
  [ row EXCEPT !.name = IF body.name # Unset THEN body.name ELSE @,
               !.role = IF body.role # Unset THEN body.role ELSE @ ]

\* the handler's write: prisma.user.update or prisma.user.delete, which
\* fail when the row is gone (the catch answers 500); the delete cascades to
\* the user's sessions
admin_write(p) ==
  /\ pc[p] = "adm_write"
  /\ LET r == req[p]
     IN IF ~ users[r.target].exists
          THEN /\ Return(p, "500")
               /\ UNCHANGED adminVars
          ELSE /\ Return(p, "200")
               /\ IF r.op = DeleteUser
                    THEN /\ users' = [ users EXCEPT ![r.target] = GoneUser ]
                         /\ sessions' = [ sessions EXCEPT ![r.target] = Unset ]
                    ELSE /\ users' = [ users EXCEPT ![r.target] = UpdatedUser(@, r.body) ]
                         /\ UNCHANGED sessions
  /\ UNCHANGED << storeVars, cacheVars >>

\* the bodies the routes' schemas accept
AdminBodies(route) ==
  IF route = PutUser
    THEN { [ name |-> "renamed", role |-> Unset ] } \cup [ name : { Unset }, role : Roles ]
    ELSE IF route = PutRole
      THEN [ name : { Unset }, role : Roles ]
      ELSE { NoBody }

\* every account exists and is signed in; account 1 is an administrator
AdminInit ==
  /\ \E roles \in [ Accounts -> Roles ] :
       /\ roles["a1"] = "admin"
       /\ users = [ u \in Accounts |-> UserRow("n", roles[u]) ]
       /\ sessions = roles
  /\ EmptyCache
  /\ shipments = << >>
  /\ events = << >>
  /\ leads = << >>
  /\ now = 0
  /\ pc = [ p \in Procs |-> "idle" ]
  /\ req = [ p \in Procs |-> IdleReq ]
  /\ last = NoResponse

\* the requests in flight
InFlight == { p \in Procs : pc[p] # "idle" }

\* the admin routes, with as many requests in flight as there are accounts
AdminNext ==
  \/ \E p \in Procs, route \in AdminRoutes, caller \in Accounts, target \in Accounts :
        \E body \in AdminBodies(route) :
          /\ Cardinality(InFlight) < Cardinality(Accounts)
          /\ requireAdmin(p, route, caller, target, body)
  \/ \E p \in Procs : admin_findUnique(p)
  \/ \E p \in Procs : admin_write(p)

AdminSpec == AdminInit /\ [][AdminNext]_vars

\* ---- the frontend's SecureCache (lib/cache.ts) ----

\* the constructor's arguments, scaled to the model's clock
maxItems   == 2   \* entries the cache holds
defaultTTL == 2   \* ticks an entry lives when set names no ttl
MaxClock   == 2   \* clock values 0..MaxClock

\* the ttl arguments of set: none, 0 for no expiry, or a time
TTLs == { NoNumber, 0, 1 }

\* the expiry of an entry that never expires
Never == MaxClock + defaultTTL + 1

\* the position of key in the Map's insertion order, 0 if it has no entry
IndexOfKey(c, key) ==
  IF \E i \in 1..Len(c) : c[i].key = key
    THEN CHOOSE i \in 1..Len(c) : c[i].key = key
    ELSE 0

\* Map.delete
MapDelete(c, key) == SelectSeq(c, LAMBDA e : e.key # key)

\* Map.set: an entry of a key the Map holds is replaced in place
MapSet(c, entry) ==
  IF IndexOfKey(c, entry.key) # 0
    THEN [ c EXCEPT ![IndexOfKey(c, entry.key)] = entry ]
    ELSE Append(c, entry)

\* the first entry of the entries sorted by timestamp: the sort is stable,
\* so of the entries with the least timestamp the first in insertion order
OldestKey(c) ==
  LET i == CHOOSE i \in 1..Len(c) :
             /\ \A j \in 1..Len(c) : c[i].timestamp <= c[j].timestamp
             /\ \A j \in 1..(i - 1) : c[j].timestamp > c[i].timestamp
  IN c[i].key

\* the Map after the capacity test of set
MakeRoom(c) == IF Len(c) >= maxItems THEN MapDelete(c, OldestKey(c)) ELSE c

\* the delay of the expiry timer: ttl || this.defaultTTL
Timeout(ttl) == IF ttl = NoNumber \/ ttl = 0 THEN defaultTTL ELSE ttl

\* setTimeout(() => this.delete(key), timeout) unless ttl is 0; the timers
\* pending for the key stay pending
StartTimer(tms, key, ttl, t) ==
  IF ttl # 0
    THEN tms \cup { [ key |-> key, due |-> t + Timeout(ttl) ] }
    ELSE tms

\* cache.set(key, data, ttl)
cache_set(key, data, ttl) ==
  /\ LET room == MakeRoom(cache)
     IN /\ cache' = MapSet(room, [ key |-> key, data |-> data, timestamp |-> time ])
        /\ latest' = [ k \in CacheKeys |->
                         IF k = key
                           THEN [ data |-> data,
                                  expires |-> IF ttl = 0 THEN Never ELSE time + Timeout(ttl) ]
                           ELSE IF IndexOfKey(cache, k) # 0 /\ IndexOfKey(room, k) = 0
                             THEN NotWritten
                             ELSE latest[k] ]
  /\ timers' = StartTimer(timers, key, ttl, time)
  /\ UNCHANGED << time, storeVars, adminVars, pc, req, last >>

\* what cache.get(key) returns
get(c, key) == IF IndexOfKey(c, key) = 0 THEN "null" ELSE c[IndexOfKey(c, key)].data

\* cache.get(key)
cache_get(key) ==
  /\ last' = Done("get", get(cache, key))
  /\ UNCHANGED << cacheVars, storeVars, adminVars, pc, req >>

\* cache.delete(key), called by the application
cache_delete(key) ==
  /\ cache' = MapDelete(cache, key)
  /\ latest' = [ latest EXCEPT ![key] = NotWritten ]
  /\ UNCHANGED << timers, time, storeVars, adminVars, pc, req, last >>

\* an expiry timer fires: the callback of setTimeout deletes its key
timer_fires(tm) ==
  /\ tm \in timers
  /\ tm.due <= time
  /\ cache' = MapDelete(cache, tm.key)
  /\ timers' = timers \ { tm }
  /\ UNCHANGED << time, latest, storeVars, adminVars, pc, req, last >>

\* the clock advances; every timer fires when it is due
cache_tick ==
  /\ time < MaxClock
  /\ \A tm \in timers : tm.due > time
  /\ time' = time + 1
  /\ UNCHANGED << cache, timers, latest, storeVars, adminVars, pc, req, last >>

CacheNext ==
  \/ \E key \in CacheKeys, data \in CacheData, ttl \in TTLs : cache_set(key, data, ttl)
  \/ \E key \in CacheKeys : cache_get(key)
  \/ \E key \in CacheKeys : cache_delete(key)
  \/ \E tm \in timers : timer_fires(tm)
  \/ cache_tick

CacheSpec == Init /\ [][CacheNext]_vars

\* process p takes the step that ends its call
Ends(p, from) == pc[p] \in from /\ pc'[p] = "idle"

\* C1: no two persisted Shipment rows have the same trackingNumber, whatever
\* the interleaving of createShipment, convertToShipment and
\* updateShipmentStatus.
C1_UniqueTrackingNumber ==
  \A i, j \in DOMAIN shipments :
    i # j => shipments[i].trackingNumber # shipments[j].trackingNumber

\* C1 witness: two shipments are stored, one inserted by createShipment and
\* one by convertToShipment, and an updateShipmentStatus has committed.
C1_Witness ==
  /\ \E i, j \in DOMAIN shipments :
       shipments[i].lead = NoLead /\ shipments[j].lead # NoLead
  /\ events # << >>

\* C2 (as claimed): for concurrent convertToShipment calls on one lead, at
\* most one creates a Shipment: no lead has more than one shipment created
\* from it.
C2_AtMostOneShipmentPerLead ==
  \A l \in DOMAIN leads :
    Cardinality({ i \in DOMAIN shipments : shipments[i].lead = l }) <= 1

\* C3 (as claimed): of sequential convertToShipment calls on a lead, the
\* first succeeds and the next fails with 'already converted': a call that
\* finds its lead not converted ends with the shipment created and the lead
\* converted, and no call on an existing lead ends in another error than
\* 'already converted'.
C3_OneShot ==
  /\ [](last.op = "convertToShipment" /\ last.outcome # "LeadNotFound"
          => last.outcome \in { "ok", "AlreadyConverted" })
  /\ [][ \A p \in Procs :
           Ends(p, { "conv_create", "conv_update" })
             => /\ last' = Done("convertToShipment", "ok")
                /\ Len(shipments') = Len(shipments) + 1
                /\ leads'[req[p].lead].status = "converted" ]_vars

\* C4 (as claimed): once a lead's status is converted, no later operation
\* moves it to another status.
C4_ConvertedIsFinal ==
  [][ \A l \in DOMAIN leads :
        LeadExists(leads, l) /\ leads[l].status = "converted" /\ LeadExists(leads', l)
          => leads'[l].status = "converted" ]_vars

\* the stored event that the commit of p's updateShipmentStatus appended
Appended(p) ==
  /\ Len(events') = Len(events) + 1
  /\ events'[Len(events')] = NewEvent(req[p].sid, req[p].status, req[p].ts, req[p].text)

\* C5 (as claimed): after any successful updateShipmentStatus(tn, S, ...),
\* getShipment(tn) returns status S and the first element of its events has
\* status S.
C5_NewestEventHasStatus ==
  [][ \A p \in Procs :
        Ends(p, { "upd_event" }) /\ last' = Done("updateShipmentStatus", "ok")
          => \A r \in getShipment(shipments', events', req[p].tn) :
               r.found /\ r.status = req[p].status /\ r.first = req[p].status ]_vars

\* C5 (amended): after any successful updateShipmentStatus(tn, S, ...),
\* getShipment(tn) returns status S and an event with status S and the
\* call's effective timestamp is among its events; that event is the first
\* element when the effective timestamp is later than the timestamp of every
\* other event of the shipment.
C5_NewestEventWhenLatest ==
  [][ \A p \in Procs :
        Ends(p, { "upd_event" }) /\ last' = Done("updateShipmentStatus", "ok")
          => /\ Appended(p)
             /\ \A r \in getShipment(shipments', events', req[p].tn) :
                  /\ r.found /\ r.status = req[p].status
                  /\ (\A k \in EventsOf(events, req[p].sid) :
                         events[k].timestamp < req[p].ts)
                       => r.first = req[p].status ]_vars

\* C5 witness: a successful update was the last call to end, its event is
\* the second of its shipment and later than the first, which has another status.
C5_Witness ==
  /\ last = Done("updateShipmentStatus", "ok")
  /\ \E k \in DOMAIN events :
       /\ k < Len(events)
       /\ events[k].shipmentId = events[Len(events)].shipmentId
       /\ events[k].timestamp < events[Len(events)].timestamp
       /\ events[k].status # events[Len(events)].status

\* C6 (as claimed): each shipment's status equals the status of its
\* most-recently-created TrackingEvent.
C6_StatusIsLastEvent ==
  \A i \in DOMAIN shipments :
    /\ EventsOf(events, i) # {}
    /\ \A k \in EventsOf(events, i) :
         (\A m \in EventsOf(events, i) : m <= k) => events[k].status = shipments[i].status

\* C7: updateShipmentStatus is atomic: a step changes a shipment's status or
\* actualDelivery only together with the insert of the event that carries
\* the new status, an event is inserted only together with its status
\* change, and a call whose event insert fails leaves shipments and events
\* as they were.
C7_UpdateAtomic ==
  [][ /\ \A i \in DOMAIN shipments :
           ( shipments'[i].status # shipments[i].status
             \/ shipments'[i].actualDelivery # shipments[i].actualDelivery )
             => /\ Len(events') = Len(events) + 1
                /\ events'[Len(events')].shipmentId = i
                /\ events'[Len(events')].status = shipments'[i].status
      /\ events' # events
           => /\ \E e \in { events'[Len(events')] } :
                   /\ events' = Append(events, e)
                   /\ shipments'[e.shipmentId].status = e.status
      /\ \A p \in Procs :
           Ends(p, { "upd_event" }) /\ last' = Done("updateShipmentStatus", "EventInsertFailed")
             => shipments' = shipments /\ events' = events ]_vars

\* C7 witness: a call failed at the event insert, behind its shipment update,
\* and a shipment is still in its created state without events.
C7_Witness ==
  /\ last = Done("updateShipmentStatus", "EventInsertFailed")
  /\ \E i \in DOMAIN shipments :
       shipments[i].status = "PENDING" /\ EventsOf(events, i) = {}

\* C8: convertToShipment is atomic: the step that ends a conversion either
\* commits the shipment insert together with the lead's status converted, or
\* reports an error and leaves shipments and leads as they were; a shipment
\* of a conversion appears only in a step that sets its lead to converted.
C8_ConvertAtomic ==
  [][ /\ \A p \in Procs :
           Ends(p, { "conv_create", "conv_update" })
             => \/ /\ last' = Done("convertToShipment", "ok")
                   /\ shipments' = Append(shipments,
                                     NewShipment(req[p].tn, req[p].userId, req[p].lead))
                   /\ LeadExists(leads', req[p].lead)
                   /\ leads'[req[p].lead].status = "converted"
                \/ /\ last'.outcome # "ok"
                   /\ shipments' = shipments
                   /\ leads' = leads
      /\ \A i \in DOMAIN shipments' \ DOMAIN shipments :
           shipments'[i].lead # NoLead
             => /\ LeadExists(leads', shipments'[i].lead)
                /\ leads'[shipments'[i].lead].status = "converted" ]_vars

\* C8 witness: a conversion failed at the lead update, behind its shipment
\* insert, and no shipment of a conversion is stored.
C8_Witness ==
  /\ last = Done("convertToShipment", "NotFound")
  /\ \A i \in DOMAIN shipments : shipments[i].lead = NoLead

\* C9: the allocator checks at most MAX_ATTEMPTS candidates per call, returns
\* the first candidate the lookup does not find, and after MAX_ATTEMPTS
\* collisions ends the call with an error, no shipment persisted.
C9_BoundedRetry ==
  [][ \A p \in Procs :
        pc[p] = "alloc"
          => /\ req[p].attempts <= MAX_ATTEMPTS
             /\ pc'[p] = "idle"
                  => /\ req[p].attempts = MAX_ATTEMPTS
                     /\ last' = Done("createShipment", "AllocationExhausted")
                     /\ shipments' = shipments
             /\ pc'[p] = "insert"
                  => /\ req[p].attempts < MAX_ATTEMPTS
                     /\ findUnique(shipments, req'[p].tn) = {}
             /\ pc'[p] = "alloc" /\ req'[p] # req[p]
                  => /\ req'[p].attempts = req[p].attempts + 1
                     /\ req'[p].attempts <= MAX_ATTEMPTS ]_vars

\* C9 witness: a createShipment ended with the allocator exhausted.
C9_Witness == last = Done("createShipment", "AllocationExhausted")

\* the characters C10 allows: digits and capitals without I and O
AllowedCharacters ==
  { "0","1","2","3","4","5","6","7","8","9",
    "A","B","C","D","E","F","G","H","J","K","L","M",
    "N","P","Q","R","S","T","U","V","W","X","Y","Z" }

WellFormed(tn) ==
  /\ Len(tn) = 12
  /\ \A i \in 1..Len(tn) : tn[i] \in AllowedCharacters

\* C10: every tracking number the allocator returns has length 12 and only
\* characters of 0123456789ABCDEFGHJKLMNPQRSTUVWXYZ.
C10_Format ==
  /\ \A p \in Procs : pc[p] = "insert" => WellFormed(req[p].tn)
  /\ \A i \in DOMAIN shipments :
       shipments[i].lead = NoLead => WellFormed(shipments[i].trackingNumber)

\* C10 witness: the allocator has returned a number to a createShipment while
\* a shipment with another allocated number is stored.
C10_Witness ==
  \E p \in Procs : \E i \in DOMAIN shipments :
    /\ pc[p] = "insert"
    /\ shipments[i].lead = NoLead
    /\ shipments[i].trackingNumber # req[p].tn

\* process p's updateShipmentStatus commits
Commits(p) ==
  Ends(p, { "upd_event" }) /\ last' = Done("updateShipmentStatus", "ok")

\* C11: a successful updateShipmentStatus to DELIVERED sets actualDelivery to
\* the call's effective timestamp, which is the timestamp the caller
\* supplied, or the clock read when the call started if none was supplied,
\* and the appended event stores that same timestamp.
C11_DeliveredSetsActualDelivery ==
  [][ \A p \in Procs :
        /\ pc[p] = "idle" /\ pc'[p] = "upd_shipment"
             => req'[p].ts = IF req'[p].given # NoTime THEN req'[p].given ELSE now
        /\ Commits(p) /\ req[p].status = "DELIVERED"
             => /\ shipments'[req[p].sid].actualDelivery = req[p].ts
                /\ req[p].ts # NoTime
                /\ Len(events') = Len(events) + 1
                /\ events'[Len(events')].shipmentId = req[p].sid
                /\ events'[Len(events')].timestamp = req[p].ts ]_vars

\* C11 witness: a DELIVERED update has committed with a timestamp earlier
\* than the clock, stored on the shipment and on its event.
C11_Witness ==
  /\ last = Done("updateShipmentStatus", "ok")
  /\ events # << >>
  /\ LET e == events[Len(events)]
     IN /\ e.status = "DELIVERED"
        /\ e.timestamp < now
        /\ shipments[e.shipmentId].actualDelivery = e.timestamp

\* a successful updateShipmentStatus to DELIVERED has been applied to
\* shipment i: its event is in the log
DeliveredOnce(evs, i) == \E k \in EventsOf(evs, i) : evs[k].status = "DELIVERED"

\* C12: in every reachable state a shipment's actualDelivery is non-null if
\* and only if a successful updateShipmentStatus to DELIVERED has been
\* applied to it, and no step, a later update to another status included,
\* clears it.
C12_ActualDeliveryIffDelivered ==
  /\ [](\A i \in DOMAIN shipments :
          shipments[i].actualDelivery # NoTime <=> DeliveredOnce(events, i))
  /\ [][ /\ \A i \in DOMAIN shipments :
             shipments[i].actualDelivery # NoTime
               => shipments'[i].actualDelivery # NoTime
        /\ \A p \in Procs :
             Commits(p) /\ req[p].status # "DELIVERED"
               => shipments'[req[p].sid].actualDelivery
                    = shipments[req[p].sid].actualDelivery ]_vars

\* C12 witness: a shipment was delivered and then moved to another status,
\* and still has its actualDelivery.
C12_Witness ==
  \E i \in DOMAIN shipments :
    /\ shipments[i].status # "DELIVERED"
    /\ shipments[i].actualDelivery # NoTime
    /\ DeliveredOnce(events, i)

\* no stored shipment has tracking number tn
Unknown(tn) == \A i \in DOMAIN shipments : shipments[i].trackingNumber # tn

\* C13: updateShipmentStatus called with a trackingNumber that no shipment
\* has fails with NotFound and changes nothing: the call ends at its first
\* write with that error, no shipment is modified and no event inserted.
C13_UnknownNumberNotFound ==
  [][ \A p \in Procs :
        /\ pc[p] = "upd_shipment" /\ Unknown(req[p].tn) /\ pc'[p] # pc[p]
             => /\ pc'[p] = "idle"
                /\ last' = Done("updateShipmentStatus", "NotFound")
                /\ shipments' = shipments
                /\ events' = events
        /\ Ends(p, { "upd_shipment" }) => Unknown(req[p].tn) ]_vars

\* C13 witness: an update for an unknown number was answered NotFound while
\* the one stored shipment is as created, without events.
C13_Witness ==
  /\ last = Done("updateShipmentStatus", "NotFound")
  /\ events = << >>
  /\ \A i \in DOMAIN shipments : shipments[i] = OneShipment[i]

\* C14: a convertToShipment call that fails its precondition, its lead
\* missing or already converted, is answered with an error in a step that
\* changes no shipment, lead or event, and only a call whose lead exists and
\* is not converted goes on to the transaction.
C14_FailedPreconditionNoChange ==
  [][ /\ ( /\ last' # last
           /\ last'.op = "convertToShipment"
           /\ last'.outcome \in { "LeadNotFound", "AlreadyConverted" } )
          => shipments' = shipments /\ leads' = leads /\ events' = events
      /\ \A p \in Procs :
           pc[p] = "idle" /\ pc'[p] = "conv_create"
             => /\ LeadExists(leads, req'[p].lead)
                /\ leads[req'[p].lead].status # "converted" ]_vars

\* C14 witness: a conversion of a converted lead was refused, and the lead
\* has the one shipment of its first conversion.
C14_Witness ==
  /\ last = Done("convertToShipment", "AlreadyConverted")
  /\ \E l \in DOMAIN leads :
       /\ leads[l].status = "converted"
       /\ Cardinality({ i \in DOMAIN shipments : shipments[i].lead = l }) = 1

\* the bodies that carry no internal detail: the routes' fixed messages
FixedMessages ==
  { "Failed to create shipment", "Failed to get shipment",
    "Failed to update shipment status", "Failed to convert lead" }

\* the outcomes other than the services' own checks: failures of the store
Unexpected == { "UniqueViolation", "EventInsertFailed", "ValidationError", "NotFound" }

\* C15 (as claimed): at the HTTP boundary a status update or a lookup for an
\* unknown tracking number answers 404, an allocation-exhausted or unexpected
\* failure answers 500 with no internal detail in the body, and converting
\* an already-converted lead answers a 4xx with a descriptive message.
C15_HttpErrorMapping ==
  /\ last = Done("updateShipmentStatus", "NotFound")
       => HttpAnswer(last).status = 404
  /\ \A tn \in Candidates : \A r \in getShipment(shipments, events, tn) :
       ~ r.found => getShipmentRoute(r.found).status = 404
  /\ ( \/ last.outcome = "AllocationExhausted"
       \/ last.outcome \in Unexpected /\ last # Done("updateShipmentStatus", "NotFound") )
       => HttpAnswer(last).status = 500 /\ HttpAnswer(last).error \in FixedMessages
  /\ last = Done("convertToShipment", "AlreadyConverted")
       => /\ HttpAnswer(last).status \in 400..499
          /\ HttpAnswer(last).error = "Lead already converted"

\* C16: createShipment neither catches nor retries a unique violation: an
\* insert of a number that a concurrent call has stored meanwhile ends its
\* call with the store's error and no write, an insert of a free number
\* commits, and no two calls store the same number.
C16_ViolationPropagates ==
  /\ [](\A i, j \in DOMAIN shipments :
          shipments[i].trackingNumber = shipments[j].trackingNumber => i = j)
  /\ [][ \A p \in Procs :
           pc[p] = "insert" /\ pc'[p] # "insert"
             => /\ pc'[p] = "idle"
                /\ IF Unknown(req[p].tn)
                     THEN /\ last' = Done("createShipment", "ok")
                          /\ Len(shipments') = Len(shipments) + 1
                          /\ shipments'[Len(shipments')].trackingNumber = req[p].tn
                     ELSE /\ last' = Done("createShipment", "UniqueViolation")
                          /\ shipments' = shipments ]_vars

\* C16 witness: of two concurrent calls that were given the same number one
\* has stored it and the other was answered with the store's error.
C16_Witness ==
  /\ last = Done("createShipment", "UniqueViolation")
  /\ Len(shipments) = 1
  /\ \A p \in Procs : pc[p] = "idle"

\* C17: of concurrent successful updateShipmentStatus calls on one shipment
\* every call's event is recorded and none is lost, the status after each
\* commit is the status of the call that committed (the last write wins),
\* and the shipment's status is at no time a status that no recorded event
\* of it has.
C17_LastWriteWins ==
  /\ [](\A i \in DOMAIN shipments :
          shipments[i].status
            \in IF EventsOf(events, i) = {} THEN { "PENDING" }
                ELSE { events[k].status : k \in EventsOf(events, i) })
  /\ [][ /\ \A p \in Procs :
             Commits(p)
               => /\ events' = Append(events, [ shipmentId |-> req[p].sid,
                                                status |-> req[p].status,
                                                description |-> req[p].text.description,
                                                location |-> req[p].text.location,
                                                timestamp |-> req[p].ts ])
                  /\ shipments'[req[p].sid].status = req[p].status
        /\ \A k \in DOMAIN events :
             k \in DOMAIN events' /\ events'[k] = events[k] ]_vars

\* C17 witness: two concurrent calls with different statuses have both
\* committed on one shipment, which has the status of the second commit.
C17_Witness ==
  /\ \A p \in Procs : pc[p] = "idle"
  /\ Len(events) = 2
  /\ events[1].shipmentId = events[2].shipmentId
  /\ events[1].status # events[2].status
  /\ shipments[events[2].shipmentId].status = events[2].status

\* C18: the shipment a successful createShipment stores and returns has
\* status PENDING, no actualDelivery, the tracking number the allocator
\* returned to the call, and the carrier, carrierTrackingNumber,
\* estimatedDelivery and userId the caller supplied, null where left out.
C18_CreatedAsSupplied ==
  [][ \A p \in Procs :
        Ends(p, { "insert" }) /\ last' = Done("createShipment", "ok")
          => /\ Len(shipments') = Len(shipments) + 1
             /\ LET created == shipments'[Len(shipments')]
                IN /\ created.status = "PENDING"
                   /\ created.actualDelivery = NoTime
                   /\ created.trackingNumber = req[p].tn
                   /\ WellFormed(created.trackingNumber)
                   /\ Unknown(created.trackingNumber)
                   /\ created.carrier = req[p].data.carrier
                   /\ created.carrierTrackingNumber = req[p].data.carrierTrackingNumber
                   /\ created.estimatedDelivery = req[p].data.estimatedDelivery
                   /\ created.userId = req[p].userId ]_vars

\* C18 witness: a shipment created with every optional input and one
\* created with none are stored.
C18_Witness ==
  /\ last = Done("createShipment", "ok")
  /\ \E i, j \in DOMAIN shipments :
       /\ shipments[i].carrier # NoText
       /\ shipments[i].carrierTrackingNumber # NoText
       /\ shipments[i].estimatedDelivery # NoTime
       /\ shipments[i].userId # NoUser
       /\ shipments[j] = NewShipment(shipments[j].trackingNumber, NoUser, NoLead)

\* C19: neither createShipment nor convertToShipment creates a
\* TrackingEvent: the step that ends either call leaves the event log as it
\* was, a shipment has no event in the state it is created in, and an event
\* is added only by the commit of an updateShipmentStatus.
C19_NoInitialEvent ==
  [][ /\ \A p \in Procs :
           Ends(p, { "alloc", "insert", "conv_create", "conv_update" })
             => events' = events
      /\ \A i \in DOMAIN shipments' \ DOMAIN shipments : EventsOf(events', i) = {}
      /\ events' # events => \E p \in Procs : Commits(p) ]_vars

\* C19 witness: a shipment of createShipment and a shipment of a conversion
\* are stored, every call has returned and the event log is empty.
C19_Witness ==
  /\ \E i, j \in DOMAIN shipments :
       shipments[i].lead = NoLead /\ shipments[j].lead # NoLead
  /\ \A p \in Procs : pc[p] = "idle"
  /\ events = << >>

\* C20: the event log is append-only: every successful updateShipmentStatus
\* appends exactly one event, with the call's shipment, status, description,
\* location and effective timestamp, and no step changes or removes an
\* event that is in the log.
C20_AppendOnly ==
  [][ /\ \A k \in DOMAIN events :
           /\ k \in DOMAIN events'
           /\ events'[k].shipmentId = events[k].shipmentId
           /\ events'[k].status = events[k].status
           /\ events'[k].description = events[k].description
           /\ events'[k].location = events[k].location
           /\ events'[k].timestamp = events[k].timestamp
      /\ Len(events') <= Len(events) + 1
      /\ \A p \in Procs :
           Commits(p)
             => /\ Len(events') = Len(events) + 1
                /\ events'[Len(events')].shipmentId = req[p].sid
                /\ events'[Len(events')].status = req[p].status
                /\ events'[Len(events')].description = req[p].text.description
                /\ events'[Len(events')].location = req[p].text.location
                /\ events'[Len(events')].timestamp = req[p].ts ]_vars

\* C20 witness: a second event was appended to a shipment's log behind a
\* first event with another description and location, which is still there.
C20_Witness ==
  /\ last = Done("updateShipmentStatus", "ok")
  /\ Len(events) >= 2
  /\ events[1].shipmentId = events[2].shipmentId
  /\ events[1].description # events[2].description
  /\ events[1].location # events[2].location

\* the commit of p's update to status to, on a shipment with status from
CommitFromTo(p, from, to) ==
  /\ pc[p] = "upd_event"
  /\ shipments[req[p].sid].status = from
  /\ req[p].status = to
  /\ pc'[p] = "idle"
  /\ last' = Done("updateShipmentStatus", "ok")
  /\ shipments'[req[p].sid].status = to

\* C21: the status graph is free: an updateShipmentStatus on an existing
\* shipment is never rejected because of the shipment's current status; for
\* every pair of statuses (S1, S2), DELIVERED included, a call to S2 on a
\* shipment in S1 passes the update and can commit, and the only failure of
\* such a call is a failure of the store's event insert.
C21_FreeStatusGraph ==
  /\ [](\A p \in Procs :
          pc[p] = "upd_event"
            => ENABLED ( /\ updateShipmentStatus_event(p)
                         /\ CommitFromTo(p, shipments[req[p].sid].status, req[p].status) ))
  /\ [][ \A p \in Procs :
          /\ pc[p] = "upd_shipment" /\ ~ Unknown(req[p].tn) /\ pc'[p] # pc[p]
               => pc'[p] = "upd_event"
          /\ pc'[p] = "upd_event"
               => /\ req'[p].status \in TrackingStatus
                  /\ shipments'[req'[p].sid].status \in TrackingStatus
          /\ Ends(p, { "upd_event" })
               => \/ CommitFromTo(p, shipments[req[p].sid].status, req[p].status)
                  \/ /\ last' = Done("updateShipmentStatus", "EventInsertFailed")
                     /\ shipments' = shipments ]_vars

\* C21 witness: a shipment was moved to DELIVERED and from there back to
\* PENDING.
C21_Witness ==
  /\ last = Done("updateShipmentStatus", "ok")
  /\ Len(events) = 2
  /\ events[1].status = "DELIVERED"
  /\ events[2].status = "PENDING"
  /\ events[1].shipmentId = events[2].shipmentId
  /\ shipments[events[2].shipmentId].status = "PENDING"

\* C22: getShipment(tn) for an existing shipment returns that shipment with
\* all of its events and only its events, each once, ordered by event
\* timestamp descending; for an unknown tn it returns null, which the route
\* answers with 404.
C22_LookupWithEvents ==
  \A tn \in Candidates \cup { UnmintedNumber } :
    \A r \in getShipment_events(shipments, events, tn) :
      IF Unknown(tn)
        THEN ~ r.found /\ getShipmentRoute(r.found).status = 404
        ELSE /\ r.found
             /\ shipments[r.shipment].trackingNumber = tn
             /\ getShipmentRoute(r.found).status = 200
             /\ \A k \in DOMAIN events :
                  events[k].shipmentId = r.shipment
                    <=> Cardinality({ a \in DOMAIN r.events : r.events[a] = k }) = 1
             /\ \A a \in DOMAIN r.events :
                  /\ r.events[a] \in DOMAIN events
                  /\ events[r.events[a]].shipmentId = r.shipment
             /\ \A a, b \in DOMAIN r.events :
                  a < b => events[r.events[a]].timestamp >= events[r.events[b]].timestamp

\* C22 witness: a shipment has two events, the later created with the
\* earlier timestamp, and another shipment is stored.
C22_Witness ==
  /\ Len(events) = 2
  /\ Len(shipments) = 2
  /\ events[1].shipmentId = events[2].shipmentId
  /\ events[2].timestamp < events[1].timestamp

\* the ids of the shipments that match params, newest first, stated by
\* position: the one at offset o is the match with o newer matches
MatchAtOffset(params, o) ==
  { i \in DOMAIN shipments :
      /\ Matches(shipments[i], params)
      /\ Cardinality({ j \in DOMAIN shipments :
                         j > i /\ Matches(shipments[j], params) }) = o }

NumMatching(params) ==
  Cardinality({ i \in DOMAIN shipments : Matches(shipments[i], params) })

\* C23: listShipments with filters and page p, limit l, 1 and 20 when left
\* out, returns the matching shipments at offsets (p-1)*l .. (p-1)*l+l-1 of
\* the newest-first order, total equal to the number of matching shipments
\* and totalPages equal to ceil(total/l); 12 matches with page 2, limit 5
\* give 5 results, total 12, totalPages 3.
C23_Pagination ==
  [][ \A p \in Procs :
        LET params == req[p].params
            pg == IF params.page = NoNumber THEN 1 ELSE params.page
            l == IF params.limit = NoNumber THEN 20 ELSE params.limit
        IN /\ pc[p] \in { "list", "list_total" } /\ pc'[p] \in { "list_rows", "list_both" }
                => /\ \A k \in 1..l :
                        IF (pg - 1) * l + k <= NumMatching(params)
                          THEN /\ k \in DOMAIN req'[p].rows
                               /\ req'[p].rows[k] \in MatchAtOffset(params, (pg - 1) * l + k - 1)
                          ELSE k \notin DOMAIN req'[p].rows
                   /\ Len(req'[p].rows) <= l
           /\ pc[p] \in { "list", "list_rows" } /\ pc'[p] \in { "list_total", "list_both" }
                => req'[p].total = NumMatching(params)
           /\ Ends(p, { "list_both" })
                => /\ last' = Done("listShipments", "ok")
                   /\ ListResult(req[p]).total = req[p].total
                   /\ ListResult(req[p]).shipments = req[p].rows
                   /\ ListResult(req[p]).totalPages * l >= req[p].total
                   /\ (ListResult(req[p]).totalPages - 1) * l < req[p].total
                   /\ ( NumMatching(params) = 12 /\ params.page = 2 /\ params.limit = 5 )
                        => /\ Len(ListResult(req[p]).shipments) = 5
                           /\ ListResult(req[p]).total = 12
                           /\ ListResult(req[p]).totalPages = 3 ]_vars

\* C23 witness: page 2 with limit 5 of the shipments in transit was read
\* from a store with 12 of them.
C23_Witness ==
  \E p \in Procs :
    /\ pc[p] = "list_both"
    /\ req[p].params.status = "IN_TRANSIT"
    /\ req[p].params.page = 2
    /\ req[p].params.limit = 5
    /\ req[p].total = 12
    /\ Len(req[p].rows) = 5

\* C24: the shipment convertToShipment creates is owned by the lead's
\* client: the call reads the lead's clientId, null when the lead has none,
\* and the shipment it commits has that userId whatever userId the caller's
\* shipmentData carries.
C24_OwnedByLeadClient ==
  [][ \A p \in Procs :
        /\ pc[p] = "idle" /\ pc'[p] = "conv_create"
             => req'[p].userId = leads[req'[p].lead].clientId
        /\ Ends(p, { "conv_update" }) /\ last' = Done("convertToShipment", "ok")
             => /\ Len(shipments') = Len(shipments) + 1
                /\ shipments'[Len(shipments')].lead = req[p].lead
                /\ shipments'[Len(shipments')].userId = req[p].userId ]_vars

\* C24 witness: a conversion whose caller supplied a userId has committed a
\* shipment for a lead with a client, and the shipment is the client's.
C24_Witness ==
  /\ last = Done("convertToShipment", "ok")
  /\ \E i \in DOMAIN shipments :
       /\ shipments[i].lead # NoLead
       /\ shipments[i].userId \in Users
       /\ leads[shipments[i].lead].clientId = shipments[i].userId

\* C27: actualDelivery, once set, keeps its value: a later successful
\* updateShipmentStatus to DELIVERED, whatever its timestamp, leaves the
\* shipment's actualDelivery as the first transition into DELIVERED set it.
C27_ActualDeliveryKept ==
  [][ \A p \in Procs :
        /\ Commits(p)
        /\ req[p].status = "DELIVERED"
        /\ shipments[req[p].sid].actualDelivery # NoTime
        => shipments'[req[p].sid].actualDelivery = shipments[req[p].sid].actualDelivery ]_vars

\* C26: convertToShipment creates its shipment as createShipment does: the
\* number of the row it inserts was returned by generateUniqueTrackingNumber
\* to this call (12 allowed characters, no stored shipment has it), so the
\* insert never fails for a missing number, and the row is stored with
\* status PENDING.
C26_SameCreationPath ==
  [][ \A p \in Procs :
        /\ pc[p] = "conv_create" /\ pc'[p] # pc[p]
             => /\ pc'[p] = "conv_update"
                /\ req[p].attempts >= 1
                /\ WellFormed(req[p].tn)
                /\ findUnique(shipments, req[p].tn) = 0
        /\ Ends(p, { "conv_update" }) /\ Len(shipments') = Len(shipments) + 1
             => shipments'[Len(shipments')].status = "PENDING" ]_vars

\* request r asks for what an administrator may not do to their own account:
\* a delete, a role change, or an update with a role other than the stored
SelfTargeted(r) ==
  /\ r.target = r.caller
  /\ r.op = PutUser => r.body.role # Unset /\ r.body.role # users[r.caller].role

\* C25: an administrator's request on their own id to DELETE /users/:id, to
\* PUT /users/:userId/role, or to PUT /users/:id with a role other than the
\* stored one, is answered 400 and leaves the caller's User row unchanged.
C25_NoSelfRoleChangeOrDelete ==
  [][ \A p \in Procs :
        pc[p] \in { "adm_find", "adm_write" } /\ pc'[p] # pc[p] /\ SelfTargeted(req[p])
          => /\ pc'[p] = "idle"
             /\ last' = Response(req[p], "400")
             /\ users'[req[p].caller] = users[req[p].caller] ]_vars

\* an administrator: an existing User row with role admin
IsAdmin(usrs, u) == usrs[u].exists /\ usrs[u].role = "admin"

\* C28: from a state with an administrator, whatever admin user requests are
\* made and however they interleave, an administrator remains.
C28_AdminRemains == \E u \in Accounts : IsAdmin(users, u)

\* C29: requireAdmin decides on the role stored in the User row when the
\* request arrives, not on the session's: a request enters a handler only
\* when its caller's stored role is admin, and a request that enters none is
\* answered 403 and writes nothing, valid session or not.
C29_StoredRoleDecides ==
  [][ /\ \A p \in Procs :
           pc[p] = "idle" /\ pc'[p] # "idle"
             => /\ pc'[p] = "adm_find"
                /\ IsAdmin(users, req'[p].caller)
      /\ pc' = pc
           => /\ last'.outcome = "403"
              /\ \E u \in Accounts : ~ IsAdmin(users, u)
              /\ UNCHANGED << users, sessions >> ]_vars

\* C29 witness: every account signed in as administrator and still has its
\* session, one of them has since been made a user, and a request has been
\* answered 403.
C29_Witness ==
  /\ last.outcome = "403"
  /\ \A u \in Accounts : sessions[u] = "admin" /\ users[u].exists
  /\ \E u \in Accounts : users[u].role = "user"

\* C30 (as claimed): what the latest set of a key wrote is returned by get
\* until the ttl of that set has elapsed, for ever when the ttl is 0, unless
\* the key was deleted or evicted for capacity since; a timer of an earlier
\* set removes no newer entry; and the cache holds at most maxItems entries.
C30_ReadableUntilExpiry ==
  /\ \A key \in CacheKeys :
       latest[key] # NotWritten /\ time < latest[key].expires
         => get(cache, key) = latest[key].data
  /\ Len(cache) <= maxItems

====
